---- MODULE Spec2Model ----
(***************************************************************************)
(* Lead distribution service (src/main.py): the entity store (operators,   *)
(* sources, source-operator edges, leads, contacts), the administrative    *)
(* endpoints that fill it, and the create_contact endpoint, which FastAPI  *)
(* runs for several requests at once (a plain `def` endpoint runs in the   *)
(* thread pool).  Every request opens its own session; a session's reads   *)
(* see what other sessions have committed, and each commit is one step.    *)
(*                                                                         *)
(* create_contact declares its body parameter as `contact_` and reads it   *)
(* as `contact_data` (lines 195-208); the model binds the two names to the *)
(* same request body, the only reading under which the endpoint runs past  *)
(* its first line.                                                         *)
(*                                                                         *)
(* Columns that no decision reads are left out: Operator.name,             *)
(* Source.name, Contact.created_at, SourceOperator.id.                     *)
(***************************************************************************)
EXTENDS Integers, Sequences, FiniteSets, TLC

\* ---- bounds of the model ------------------------------------------------
MaxOperators == 2
MaxSources == 1
MaxEdges == 2
MaxRequests == 2

\* ---- input domains ------------------------------------------------------
None == 0                      \* Python None / SQL NULL (row ids start at 1)
Requests == 1..MaxRequests
ExternalIds == {"x", "y"}
OperatorIds == 1..MaxOperators
SourceIds == 1..MaxSources
Capacities == {-1, 0, 1}       \* OperatorCreate.max_active_leads: int
Weights == {-1, 0, 1, 3}       \* SourceOperatorAssign.weight: int

VARIABLES
    operators,          \* table operators: row id = index, [is_active, max_active_leads]
    sources,            \* table sources: the set of row ids
    source_operators,   \* table source_operators, in insertion order
    leads,              \* table leads: row id = index, value = external_id
    contacts,           \* table contacts: row id = index
    pc,                 \* where each create_contact request stands
    contact_data,       \* each request's body: [lead_external_id, source_id]
    lead,               \* local `lead` (its id)
    candidates,         \* local `candidates`: sequence of [op, weight]
    selected_operator,  \* local `selected_operator` (its id, or None)
    response            \* what the request returned

vars == <<operators, sources, source_operators, leads, contacts, pc,
          contact_data, lead, candidates, selected_operator, response>>

store == <<operators, sources, source_operators, leads, contacts>>
config == <<operators, sources, source_operators>>
locals == <<contact_data, lead, candidates, selected_operator, response>>

\* ---- helpers ------------------------------------------------------------
RECURSIVE SumSeq(_)
SumSeq(s) == IF s = <<>> THEN 0 ELSE Head(s) + SumSeq(Tail(s))

\* sum(weights), line 134
TotalWeight(cands) == SumSeq([i \in DOMAIN cands |-> cands[i].weight])

\* db.query(Lead).filter(Lead.external_id == external_id).first(), line 102
FindLead(external_id) ==
    IF \E i \in DOMAIN leads : leads[i] = external_id
    THEN CHOOSE i \in DOMAIN leads : leads[i] = external_id
    ELSE None

\* (mutant) the count of lines 111-114 without the filter of line 113
get_operator_load_all(operator_id) ==
    Cardinality({i \in DOMAIN contacts : contacts[i].operator_id = operator_id})

\* get_operator_load, lines 110-114
get_operator_load(operator_id) ==
    Cardinality({i \in DOMAIN contacts :
                    contacts[i].operator_id = operator_id /\ contacts[i].is_active})

\* (mutant) the join of lines 117-122 without the filter of line 120
JoinRowsAnySource(source_id) ==
    {i \in DOMAIN source_operators :
        /\ source_operators[i].operator_id \in DOMAIN operators
        /\ operators[source_operators[i].operator_id].is_active}

\* (mutant) the join of lines 117-122 without the filter of line 121
JoinRowsAnyOperator(source_id) ==
    {i \in DOMAIN source_operators :
        /\ source_operators[i].source_id = source_id
        /\ source_operators[i].operator_id \in DOMAIN operators}

\* the rows of the join of lines 117-122: edges of the source whose operator
\* row exists and is active (an inner join drops an edge that names no operator)
JoinRows(source_id) ==
    {i \in DOMAIN source_operators :
        /\ source_operators[i].source_id = source_id
        /\ source_operators[i].operator_id \in DOMAIN operators
        /\ operators[source_operators[i].operator_id].is_active}

\* the query has no ORDER BY: the store may return the rows in any order
RowOrders(source_id) ==
    LET rows == JoinRows(source_id)
        n == Cardinality(rows)
    IN {o \in [1..n -> rows] : \A i, j \in 1..n : i # j => o[i] # o[j]}

\* (mutant) the filter of line 126 with weight >= 0 for weight > 0
RECURSIVE FilterRowsWeightGe0(_)
FilterRowsWeightGe0(order) ==
    IF order = <<>> THEN <<>>
    ELSE LET e == source_operators[Head(order)]
             op == operators[e.operator_id]
             load == get_operator_load(e.operator_id)
             rest == FilterRowsWeightGe0(Tail(order))
         IN IF load < op.max_active_leads /\ e.weight >= 0
            THEN <<[op |-> e.operator_id, weight |-> e.weight]>> \o rest
            ELSE rest

\* (mutant) the filter of line 126 with load <= max_active_leads for <
RECURSIVE FilterRowsLoadLe(_)
FilterRowsLoadLe(order) ==
    IF order = <<>> THEN <<>>
    ELSE LET e == source_operators[Head(order)]
             op == operators[e.operator_id]
             load == get_operator_load(e.operator_id)
             rest == FilterRowsLoadLe(Tail(order))
         IN IF load <= op.max_active_leads /\ e.weight > 0
            THEN <<[op |-> e.operator_id, weight |-> e.weight]>> \o rest
            ELSE rest

\* (mutant) the loop of lines 123-128 keeping one candidate per operator
RECURSIVE FilterRowsSeen(_, _)
FilterRowsSeen(order, seen) ==
    IF order = <<>> THEN <<>>
    ELSE LET e == source_operators[Head(order)]
             op == operators[e.operator_id]
             load == get_operator_load(e.operator_id)
         IN IF load < op.max_active_leads /\ e.weight > 0 /\ e.operator_id \notin seen
            THEN <<[op |-> e.operator_id, weight |-> e.weight]>>
                    \o FilterRowsSeen(Tail(order), seen \cup {e.operator_id})
            ELSE FilterRowsSeen(Tail(order), seen)

FilterRowsDistinct(order) == FilterRowsSeen(order, {})

\* the loop of lines 123-128 over the rows in the order the store returned them
RECURSIVE FilterRows(_)
FilterRows(order) ==
    IF order = <<>> THEN <<>>
    ELSE LET e == source_operators[Head(order)]
             op == operators[e.operator_id]
             load == get_operator_load(e.operator_id)
             rest == FilterRows(Tail(order))
         IN IF load < op.max_active_leads /\ e.weight > 0
            THEN <<[op |-> e.operator_id, weight |-> e.weight]>> \o rest
            ELSE rest

get_eligible_operators(order) == FilterRows(order)

\* (mutant) line 138 with > for >=
RECURSIVE WalkFromStrict(_, _, _, _)
WalkFromStrict(cands, i, upto, r2) ==
    IF i > Len(cands) THEN Len(cands)
    ELSE IF 2 * (upto + cands[i].weight) > r2 THEN i
    ELSE WalkFromStrict(cands, i + 1, upto + cands[i].weight, r2)

\* (mutant) line 138 comparing the running sum before the weight is added
RECURSIVE WalkFromBeforeAdd(_, _, _, _)
WalkFromBeforeAdd(cands, i, upto, r2) ==
    IF i > Len(cands) THEN Len(cands)
    ELSE IF 2 * upto >= r2 THEN i
    ELSE WalkFromBeforeAdd(cands, i + 1, upto + cands[i].weight, r2)

\* the loop of lines 136-141.  The draw r = random.uniform(0, total) is a
\* float; r2 stands for 2*r, so that both the integer values (the interval
\* boundaries) and values strictly between them are drawn.
RECURSIVE WalkFrom(_, _, _, _)
WalkFrom(cands, i, upto, r2) ==
    IF i > Len(cands) THEN Len(cands)                     \* line 141
    ELSE IF 2 * (upto + cands[i].weight) >= r2 THEN i     \* line 138
    ELSE WalkFrom(cands, i + 1, upto + cands[i].weight, r2)

ChoiceIndex(cands, r2) == WalkFrom(cands, 1, 0, r2)

\* weighted_random_choice, lines 130-141, for the draw r = r2/2
weighted_random_choice(cands, r2) ==
    IF cands = <<>> THEN None                             \* lines 131-132
    ELSE cands[ChoiceIndex(cands, r2)].op

\* the values random.uniform(0, total) can take, doubled
Draws(cands) == 0..(2 * TotalWeight(cands))

\* ---- initial state: an empty database, no request started --------------
Init ==
    /\ operators = <<>>
    /\ sources = {}
    /\ source_operators = <<>>
    /\ leads = <<>>
    /\ contacts = <<>>
    /\ pc = [r \in Requests |-> "idle"]
    /\ contact_data = [r \in Requests |-> [lead_external_id |-> "", source_id |-> None]]
    /\ lead = [r \in Requests |-> None]
    /\ candidates = [r \in Requests |-> <<>>]
    /\ selected_operator = [r \in Requests |-> None]
    /\ response = [r \in Requests |-> [status |-> 0]]

\* ---- administrative endpoints ---------------------------------------------
\* Operator.validate_max_active_leads, lines 23-27
validate_max_active_leads(value) == value >= 0

\* POST /operators/, lines 143-157; a rejected value raises before db.add
create_operator(is_active, max_active_leads) ==
    /\ Len(operators) < MaxOperators
    /\ IF validate_max_active_leads(max_active_leads)
       THEN operators' = Append(operators,
                [is_active |-> is_active, max_active_leads |-> max_active_leads])
       ELSE UNCHANGED operators
    /\ UNCHANGED <<sources, source_operators, leads, contacts, pc, locals>>

\* POST /sources/, lines 167-177
create_source ==
    /\ Cardinality(sources) < MaxSources
    /\ sources' = sources \cup {Cardinality(sources) + 1}
    /\ UNCHANGED <<operators, source_operators, leads, contacts, pc, locals>>

\* POST /sources/{source_id}/operators/, lines 179-192: nothing is looked up
\* or validated before the insert
assign_operator_to_source(source_id, operator_id, weight) ==
    /\ Len(source_operators) < MaxEdges
    /\ source_operators' = Append(source_operators,
            [source_id |-> source_id, operator_id |-> operator_id, weight |-> weight])
    /\ UNCHANGED <<operators, sources, leads, contacts, pc, locals>>

\* ---- POST /contacts/, lines 194-224, one database round trip per step ----
\* the request arrives and get_or_create_lead queries the lead, lines 198, 102-103
ResolveLead(r, external_id, source_id) ==
    /\ pc[r] = "idle"
    /\ \A q \in Requests : q < r => pc[q] # "idle"
    /\ contact_data' = [contact_data EXCEPT
            ![r] = [lead_external_id |-> external_id, source_id |-> source_id]]
    /\ LET found == FindLead(external_id)
       IN IF found # None
          THEN /\ lead' = [lead EXCEPT ![r] = found]
               /\ pc' = [pc EXCEPT ![r] = "ValidateSource"]
          ELSE /\ UNCHANGED lead
               /\ pc' = [pc EXCEPT ![r] = "InsertLead"]
    /\ UNCHANGED <<store, candidates, selected_operator, response>>

\* (mutant) the external_id column without its unique index
LeadInsertNoUnique(external_id) == TRUE

\* a second Lead with the same external_id violates the unique index, line 32
LeadInsertAllowed(external_id) == \A i \in DOMAIN leads : leads[i] # external_id

\* get_or_create_lead inserts and commits the lead, lines 104-107; the
\* IntegrityError of a lost race is caught nowhere and ends the request
InsertLead(r) ==
    /\ pc[r] = "InsertLead"
    /\ IF LeadInsertAllowed(contact_data[r].lead_external_id)
       THEN /\ leads' = Append(leads, contact_data[r].lead_external_id)
            /\ lead' = [lead EXCEPT ![r] = Len(leads) + 1]
            /\ pc' = [pc EXCEPT ![r] = "ValidateSource"]
            /\ UNCHANGED response
       ELSE /\ pc' = [pc EXCEPT ![r] = "IntegrityError"]
            /\ response' = [response EXCEPT ![r] = [status |-> 500]]
            /\ UNCHANGED <<leads, lead>>
    /\ UNCHANGED <<config, contacts, contact_data, candidates, selected_operator>>

\* (mutant) the lookup of line 199 without the check of line 200
SourceAlwaysFound(source_id) == TRUE

\* db.query(Source)...first(), line 199
SourceExists(source_id) == source_id \in sources

\* (mutant) the Contact row inserted before the check of line 200
ValidateSourceAfterInsert(r) ==
    /\ pc[r] = "ValidateSource"
    /\ contacts' = Append(contacts,
            [lead_id |-> lead[r], source_id |-> contact_data[r].source_id,
             operator_id |-> None, is_active |-> TRUE])
    /\ IF SourceExists(contact_data[r].source_id)
       THEN /\ pc' = [pc EXCEPT ![r] = "ComputeEligibility"]
            /\ UNCHANGED response
       ELSE /\ pc' = [pc EXCEPT ![r] = "SourceNotFound"]
            /\ response' = [response EXCEPT ![r] = [status |-> 404]]
    /\ UNCHANGED <<config, leads, contact_data, lead, candidates, selected_operator>>

\* lines 199-201
ValidateSource(r) ==
    /\ pc[r] = "ValidateSource"
    /\ IF SourceExists(contact_data[r].source_id)
       THEN /\ pc' = [pc EXCEPT ![r] = "ComputeEligibility"]
            /\ UNCHANGED response
       ELSE /\ pc' = [pc EXCEPT ![r] = "SourceNotFound"]
            /\ response' = [response EXCEPT ![r] = [status |-> 404]]
    /\ UNCHANGED <<store, contact_data, lead, candidates, selected_operator>>

\* line 203
ComputeEligibility(r) ==
    /\ pc[r] = "ComputeEligibility"
    /\ \E order \in RowOrders(contact_data[r].source_id) :
            candidates' = [candidates EXCEPT ![r] = get_eligible_operators(order)]
    /\ pc' = [pc EXCEPT ![r] = "Select"]
    /\ UNCHANGED <<store, contact_data, lead, selected_operator, response>>

\* line 204
Select(r) ==
    /\ pc[r] = "Select"
    /\ \E r2 \in Draws(candidates[r]) :
            selected_operator' = [selected_operator EXCEPT
                ![r] = weighted_random_choice(candidates[r], r2)]
    /\ pc' = [pc EXCEPT ![r] = "Commit"]
    /\ UNCHANGED <<store, contact_data, lead, candidates, response>>

\* (mutant) line 210 as is_active=False
NewContactInactive(r) ==
    [lead_id |-> lead[r],
     source_id |-> contact_data[r].source_id,
     operator_id |-> selected_operator[r],
     is_active |-> FALSE]

\* the Contact of lines 206-211
NewContact(r) ==
    [lead_id |-> lead[r],
     source_id |-> contact_data[r].source_id,
     operator_id |-> selected_operator[r],
     is_active |-> TRUE]

\* (mutant) line 221 as assigned=True
ContactResponseAlwaysAssigned(r, contact_id, contact) ==
    [status |-> 200,
     contact_id |-> contact_id,
     lead_id |-> lead[r],
     source_id |-> contact.source_id,
     operator_id |-> contact.operator_id,
     assigned |-> TRUE]

\* the ContactResponse of lines 216-222, built from the refreshed contact row
ContactResponse(r, contact_id, contact) ==
    [status |-> 200,
     contact_id |-> contact_id,
     lead_id |-> lead[r],
     source_id |-> contact.source_id,
     operator_id |-> contact.operator_id,
     assigned |-> contact.operator_id # None]

\* (mutant) the insert of lines 206-213 also closing the Lead's earlier Contacts
CommitClosingEarlier(r) ==
    /\ pc[r] = "Commit"
    /\ contacts' = Append([i \in DOMAIN contacts |->
                            IF contacts[i].lead_id = lead[r]
                            THEN [contacts[i] EXCEPT !.is_active = FALSE]
                            ELSE contacts[i]],
                          NewContact(r))
    /\ response' = [response EXCEPT
            ![r] = ContactResponse(r, Len(contacts) + 1, NewContact(r))]
    /\ pc' = [pc EXCEPT ![r] = "Done"]
    /\ UNCHANGED <<config, leads, contact_data, lead, candidates, selected_operator>>

\* lines 206-222: insert, commit, refresh, return
Commit(r) ==
    /\ pc[r] = "Commit"
    /\ contacts' = Append(contacts, NewContact(r))
    /\ response' = [response EXCEPT
            ![r] = ContactResponse(r, Len(contacts) + 1, NewContact(r))]
    /\ pc' = [pc EXCEPT ![r] = "Done"]
    /\ UNCHANGED <<config, leads, contact_data, lead, candidates, selected_operator>>

Next ==
    \/ \E a \in BOOLEAN, m \in Capacities : create_operator(a, m)
    \/ create_source
    \/ \E s \in SourceIds, o \in OperatorIds, w \in Weights :
            assign_operator_to_source(s, o, w)
    \/ \E r \in Requests, x \in ExternalIds, s \in SourceIds : ResolveLead(r, x, s)
    \/ \E r \in Requests : InsertLead(r)
    \/ \E r \in Requests : ValidateSource(r)
    \/ \E r \in Requests : ComputeEligibility(r)
    \/ \E r \in Requests : Select(r)
    \/ \E r \in Requests : Commit(r)

Spec == Init /\ [][Next]_vars

\* ---- the scenario of two racing requests ---------------------------------
\* the store after POST /operators/ {max_active_leads: 1}, POST /sources/ and
\* POST /sources/1/operators/ {operator_id: 1, weight: 1}
ScenarioInit ==
    /\ operators = <<[is_active |-> TRUE, max_active_leads |-> 1]>>
    /\ sources = {1}
    /\ source_operators = <<[source_id |-> 1, operator_id |-> 1, weight |-> 1]>>
    /\ leads = <<>>
    /\ contacts = <<>>
    /\ pc = [r \in Requests |-> "idle"]
    /\ contact_data = [r \in Requests |-> [lead_external_id |-> "", source_id |-> None]]
    /\ lead = [r \in Requests |-> None]
    /\ candidates = [r \in Requests |-> <<>>]
    /\ selected_operator = [r \in Requests |-> None]
    /\ response = [r \in Requests |-> [status |-> 0]]

\* only create_contact requests run, all for source 1
ScenarioNext ==
    \/ \E r \in Requests, x \in ExternalIds : ResolveLead(r, x, 1)
    \/ \E r \in Requests : InsertLead(r)
    \/ \E r \in Requests : ValidateSource(r)
    \/ \E r \in Requests : ComputeEligibility(r)
    \/ \E r \in Requests : Select(r)
    \/ \E r \in Requests : Commit(r)

ScenarioSpec == ScenarioInit /\ [][ScenarioNext]_vars

\* ---- properties ------------------------------------------------------------
\* the count of active Contacts of an operator, taken from the table itself
ActiveContactsOf(o) ==
    {i \in DOMAIN contacts : contacts[i].operator_id = o /\ contacts[i].is_active = TRUE}

\* C1: in every reachable state, every operator has at most max_active_leads
\* active Contacts, whatever the interleaving of the create_contact requests.
CapacityInvariant ==
    \A o \in DOMAIN operators :
        Cardinality(ActiveContactsOf(o)) <= operators[o].max_active_leads

\* C2: with operator 1 (capacity 1) the only edge (weight 1) of source 1, two
\* requests for source 1 with different external lead ids end with exactly one
\* of them assigned to operator 1 and the other unassigned.
TwoRequestScenario ==
    \A r1, r2 \in Requests :
        ( /\ r1 # r2
          /\ pc[r1] = "Done" /\ pc[r2] = "Done"
          /\ contact_data[r1].lead_external_id # contact_data[r2].lead_external_id )
        => \/ /\ response[r1].operator_id = 1 /\ response[r1].assigned = TRUE
              /\ response[r2].operator_id = None /\ response[r2].assigned = FALSE
           \/ /\ response[r2].operator_id = 1 /\ response[r2].assigned = TRUE
              /\ response[r1].operator_id = None /\ response[r1].assigned = FALSE

\* C3: at most one Lead exists per external_id, and two completed requests
\* with the same lead_external_id produced Contacts with the same lead_id.
LeadIdempotence ==
    /\ \A i, j \in DOMAIN leads : leads[i] = leads[j] => i = j
    /\ \A r1, r2 \in Requests :
        ( /\ pc[r1] = "Done" /\ pc[r2] = "Done"
          /\ contact_data[r1].lead_external_id = contact_data[r2].lead_external_id )
        => /\ contacts[response[r1].contact_id].lead_id
                = contacts[response[r2].contact_id].lead_id
           /\ response[r1].lead_id = response[r2].lead_id

\* two requests with the same external id raced for the insert (both had found
\* no Lead), and two requests with the same external id completed
LeadIdempotenceWitness ==
    \E r1, r2 \in Requests :
        /\ r1 # r2
        /\ pc[r1] = "Done" /\ pc[r2] = "Done"
        /\ contact_data[r1].lead_external_id = contact_data[r2].lead_external_id
        /\ Len(leads) = 1

\* C4: a request that loses the Lead uniqueness race re-reads the Lead and
\* goes on to Commit: no request ends with the insert's IntegrityError.
LeadRaceAbsorbed ==
    \A r \in Requests : pc[r] # "IntegrityError"

\* the edges of a source that qualify, read off the tables: the operator row
\* exists and is active, the weight is positive, and the operator has fewer
\* active Contacts than max_active_leads
EligibleEdges(s) ==
    {i \in DOMAIN source_operators :
        /\ source_operators[i].source_id = s
        /\ source_operators[i].operator_id \in DOMAIN operators
        /\ operators[source_operators[i].operator_id].is_active = TRUE
        /\ source_operators[i].weight > 0
        /\ Cardinality(ActiveContactsOf(source_operators[i].operator_id))
                < operators[source_operators[i].operator_id].max_active_leads}

\* the edges of a source whose operator is active with a positive weight and
\* is at capacity
EdgesAtCapacity(s) ==
    {i \in DOMAIN source_operators :
        /\ source_operators[i].source_id = s
        /\ source_operators[i].operator_id \in DOMAIN operators
        /\ operators[source_operators[i].operator_id].is_active = TRUE
        /\ source_operators[i].weight > 0
        /\ operators[source_operators[i].operator_id].max_active_leads > 0
        /\ Cardinality(ActiveContactsOf(source_operators[i].operator_id))
                >= operators[source_operators[i].operator_id].max_active_leads}

\* C5: a request whose source_id matches no Source when it is looked up ends
\* with SourceNotFound (404) and stays there; no step a request takes before
\* its Commit changes the Contacts, the Operators, the Sources or the edges,
\* and the only row such a step may add is the Lead of its external id.
UnknownSource ==
    [][\A r \in Requests :
        /\ ( /\ pc[r] = "ValidateSource" /\ pc'[r] # "ValidateSource"
             /\ contact_data[r].source_id \notin sources )
           => /\ pc'[r] = "SourceNotFound"
              /\ response'[r] = [status |-> 404]
              /\ store' = store
        /\ (pc'[r] # pc[r] /\ pc'[r] # "Done")
           => /\ contacts' = contacts
              /\ config' = config
              /\ \/ leads' = leads
                 \/ leads' = Append(leads, contact_data'[r].lead_external_id)
        /\ pc[r] = "SourceNotFound"
           => (pc'[r] = "SourceNotFound" /\ response'[r] = response[r])
      ]_vars

\* a request ended with 404 while the store holds a Lead and another
\* request's Contact
UnknownSourceWitness ==
    \E r \in Requests :
        /\ pc[r] = "SourceNotFound"
        /\ response[r].status = 404
        /\ Len(leads) >= 1
        /\ Len(contacts) >= 1

\* C6: a request whose source has no eligible edge when eligibility is read
\* gets an empty candidate list, and a request with an empty candidate list
\* commits exactly one Contact, with operator_id = null, and returns
\* assigned = false, operator_id = null with status 200.
UnassignedPath ==
    [][\A r \in Requests :
        /\ ( /\ pc[r] = "ComputeEligibility" /\ pc'[r] # "ComputeEligibility"
             /\ EligibleEdges(contact_data[r].source_id) = {} )
           => (pc'[r] = "Select" /\ candidates'[r] = <<>>)
        /\ (pc[r] \in {"Select", "Commit"}) => candidates'[r] = candidates[r]
        /\ (pc[r] = "Select" /\ pc'[r] # "Select" /\ candidates[r] = <<>>)
           => (pc'[r] = "Commit" /\ selected_operator'[r] = None)
        /\ (pc[r] = "Commit" /\ pc'[r] # "Commit" /\ candidates[r] = <<>>)
           => /\ pc'[r] = "Done"
              /\ Len(contacts') = Len(contacts) + 1
              /\ SubSeq(contacts', 1, Len(contacts)) = contacts
              /\ contacts'[Len(contacts')].operator_id = None
              /\ response'[r].status = 200
              /\ response'[r].contact_id = Len(contacts')
              /\ response'[r].assigned = FALSE
              /\ response'[r].operator_id = None
      ]_vars

\* a request completed unassigned although its source has an active operator
\* with a positive weight: that operator is at capacity
UnassignedPathWitness ==
    \E r \in Requests :
        /\ pc[r] = "Done"
        /\ candidates[r] = <<>>
        /\ response[r].assigned = FALSE
        /\ contacts[response[r].contact_id].operator_id = None
        /\ EdgesAtCapacity(contact_data[r].source_id) # {}

\* C7: for every completed request, assigned is true iff an operator was
\* selected, and the returned lead_id, source_id and operator_id are those of
\* the Contact the request persisted, whose operator_id is the selected
\* operator (null when none was selected).
ResultMatchesContact ==
    \A r \in Requests :
        pc[r] = "Done" =>
            /\ response[r].contact_id \in DOMAIN contacts
            /\ \A q \in Requests :
                (q # r /\ pc[q] = "Done") => response[q].contact_id # response[r].contact_id
            /\ response[r].assigned = (selected_operator[r] # None)
            /\ response[r].lead_id = contacts[response[r].contact_id].lead_id
            /\ response[r].source_id = contacts[response[r].contact_id].source_id
            /\ response[r].operator_id = contacts[response[r].contact_id].operator_id
            /\ contacts[response[r].contact_id].operator_id = selected_operator[r]
            /\ contacts[response[r].contact_id].lead_id = lead[r]
            /\ contacts[response[r].contact_id].source_id = contact_data[r].source_id

\* one request completed assigned and another completed unassigned
ResultMatchesContactWitness ==
    \E r1, r2 \in Requests :
        /\ pc[r1] = "Done" /\ response[r1].assigned = TRUE
        /\ pc[r2] = "Done" /\ response[r2].assigned = FALSE

\* C8: for every store state, source and row order, get_eligible_operators
\* returns one candidate (operator id, weight) per edge of the source whose
\* operator is active, whose weight is > 0 and whose operator's active load
\* is below max_active_leads, and nothing else; an operator with
\* max_active_leads = 0 is never a candidate; with no such edge it is empty.
EligibilityFilterResult ==
    \A s \in SourceIds : \A order \in RowOrders(s) :
        LET c == get_eligible_operators(order) IN
        /\ Len(c) = Cardinality(EligibleEdges(s))
        /\ \A o \in OperatorIds, w \in Weights :
              Cardinality({k \in DOMAIN c : c[k].op = o /\ c[k].weight = w})
            = Cardinality({i \in EligibleEdges(s) :
                              /\ source_operators[i].operator_id = o
                              /\ source_operators[i].weight = w})
        /\ \A k \in DOMAIN c : operators[c[k].op].max_active_leads # 0
        /\ (EligibleEdges(s) = {}) => (c = <<>>)

\* a source with one edge that qualifies and one edge that is filtered out
\* only because its operator is at capacity
EligibilityFilterWitness ==
    \E s \in SourceIds :
        /\ EligibleEdges(s) # {}
        /\ EdgesAtCapacity(s) # {}

\* the weight interval of candidate i: (IntervalLo, IntervalHi]
IntervalLo(c, i) == SumSeq([k \in 1..(i - 1) |-> c[k].weight])
IntervalHi(c, i) == SumSeq([k \in 1..i |-> c[k].weight])

\* C9 as stated: for every draw r in [0, totalWeight), taken at the whole
\* and the half values, weighted_random_choice returns the candidate i with
\* sum(weights before i) <= r < sum(weights up to and including i), and none
\* for an empty list.
SelectionRuleHalfOpen ==
    \A r \in Requests :
        pc[r] = "Select" =>
            LET c == candidates[r] IN
            IF c = <<>>
            THEN \A r2 \in Draws(c) : weighted_random_choice(c, r2) = None
            ELSE \A r2 \in 0..(2 * TotalWeight(c) - 1) : \A i \in DOMAIN c :
                    (2 * IntervalLo(c, i) <= r2 /\ r2 < 2 * IntervalHi(c, i))
                    => weighted_random_choice(c, r2) = c[i].op

\* C9 as amended: for every draw r in [0, totalWeight], taken at the whole
\* and the half values, weighted_random_choice returns the first candidate
\* whose inclusive cumulative weight is >= r: candidate i with
\* sum(weights before i) < r <= sum(weights up to and including i), and the
\* first candidate for r = 0; none for an empty list.
SelectionRule ==
    \A r \in Requests :
        pc[r] = "Select" =>
            LET c == candidates[r] IN
            IF c = <<>>
            THEN \A r2 \in Draws(c) : weighted_random_choice(c, r2) = None
            ELSE \A r2 \in 0..(2 * TotalWeight(c)) : \A i \in DOMAIN c :
                    ( \/ (2 * IntervalLo(c, i) < r2 /\ r2 <= 2 * IntervalHi(c, i))
                      \/ (r2 = 0 /\ i = 1) )
                    => /\ ChoiceIndex(c, r2) = i
                       /\ weighted_random_choice(c, r2) = c[i].op

\* a request is about to draw over two candidates, so a draw can fall on the
\* boundary between their intervals
SelectionRuleWitness ==
    \E r \in Requests :
        /\ pc[r] = "Select"
        /\ Len(candidates[r]) = 2
        /\ candidates[r][1].op # candidates[r][2].op

\* the integer draws in lo..hi for which candidate i is returned
DrawsSelecting(c, i, lo, hi) == {n \in lo..hi : ChoiceIndex(c, 2 * n) = i}

\* the weight an operator holds in a candidate list (the sum over its edges)
WeightOf(c, o) == SumSeq([k \in DOMAIN c |-> IF c[k].op = o THEN c[k].weight ELSE 0])

\* C10 as stated: the number of values r in 0..totalWeight-1 for which an
\* operator is returned equals the weight that operator holds in the list.
WeightedFairnessFromZero ==
    \A r \in Requests :
        pc[r] = "Select" =>
            \A i \in DOMAIN candidates[r] :
                Cardinality({n \in 0..(TotalWeight(candidates[r]) - 1) :
                    weighted_random_choice(candidates[r], 2 * n) = candidates[r][i].op})
                    = WeightOf(candidates[r], candidates[r][i].op)

\* C10 as amended: the number of values r in 1..totalWeight that select a
\* candidate equals that candidate's weight, and so the number for which an
\* operator is returned equals the weight that operator holds in the list.
WeightedFairness ==
    \A r \in Requests :
        pc[r] = "Select" =>
            \A i \in DOMAIN candidates[r] :
                /\ Cardinality(DrawsSelecting(candidates[r], i, 1,
                                              TotalWeight(candidates[r])))
                        = candidates[r][i].weight
                /\ Cardinality({n \in 1..TotalWeight(candidates[r]) :
                        weighted_random_choice(candidates[r], 2 * n) = candidates[r][i].op})
                        = WeightOf(candidates[r], candidates[r][i].op)

\* a request is about to draw over operators A (weight 3) and B (weight 1)
WeightedFairnessWitness ==
    \E r \in Requests :
        /\ pc[r] = "Select"
        /\ Len(candidates[r]) = 2
        /\ candidates[r][1].op # candidates[r][2].op
        /\ candidates[r][1].weight = 3
        /\ candidates[r][2].weight = 1

\* C11: the number of Contacts equals the number of completed requests, and
\* the Contact of a completed request has is_active = true, the lead_id of
\* the Lead resolved for the request's external id and the requested
\* source_id.
OneContactPerRequest ==
    /\ Len(contacts) = Cardinality({r \in Requests : pc[r] = "Done"})
    /\ \A r \in Requests :
        pc[r] = "Done" =>
            /\ response[r].contact_id \in DOMAIN contacts
            /\ \A q \in Requests :
                (q # r /\ pc[q] = "Done") => response[q].contact_id # response[r].contact_id
            /\ contacts[response[r].contact_id].is_active = TRUE
            /\ contacts[response[r].contact_id].lead_id \in DOMAIN leads
            /\ leads[contacts[response[r].contact_id].lead_id]
                    = contact_data[r].lead_external_id
            /\ contacts[response[r].contact_id].source_id = contact_data[r].source_id

\* one request completed and another ended at source validation: one Contact
OneContactPerRequestWitness ==
    \E r1, r2 \in Requests :
        /\ pc[r1] = "Done"
        /\ pc[r2] = "SourceNotFound"
        /\ Len(contacts) = 1

\* ---- the closing workflow ---------------------------------------------------
\* An external workflow clears is_active on a Contact to free capacity; no
\* endpoint of main.py does it.
close_contact(i) ==
    /\ i \in DOMAIN contacts
    /\ contacts[i].is_active = TRUE
    /\ contacts' = [contacts EXCEPT ![i].is_active = FALSE]
    /\ UNCHANGED <<config, leads, pc, locals>>

\* the service together with the closing workflow
ClosingNext ==
    \/ \E a \in BOOLEAN, m \in Capacities : create_operator(a, m)
    \/ create_source
    \/ \E s \in SourceIds, o \in OperatorIds, w \in Weights :
            assign_operator_to_source(s, o, w)
    \/ \E r \in Requests, x \in ExternalIds, s \in SourceIds : ResolveLead(r, x, s)
    \/ \E r \in Requests : InsertLead(r)
    \/ \E r \in Requests : ValidateSource(r)
    \/ \E r \in Requests : ComputeEligibility(r)
    \/ \E r \in Requests : Select(r)
    \/ \E r \in Requests : Commit(r)
    \/ \E i \in 1..MaxRequests : close_contact(i)

ClosingSpec == Init /\ [][ClosingNext]_vars

\* all Contacts of an operator, closed ones included
ContactsOf(o) == {i \in DOMAIN contacts : contacts[i].operator_id = o}

\* C12: closed Contacts do not count toward the load: the load of an operator
\* is the number of its Contacts with is_active = true, and every edge of a
\* source whose operator is active, whose weight is > 0 and whose operator has
\* fewer active Contacts than max_active_leads is returned as a candidate,
\* however many closed Contacts the operator has.
ClosingFreesCapacity ==
    /\ \A o \in DOMAIN operators :
            get_operator_load(o) = Cardinality(ActiveContactsOf(o))
    /\ \A s \in SourceIds : \A order \in RowOrders(s) : \A i \in JoinRows(s) :
            ( /\ source_operators[i].weight > 0
              /\ Cardinality(ActiveContactsOf(source_operators[i].operator_id))
                    < operators[source_operators[i].operator_id].max_active_leads )
            => \E k \in DOMAIN get_eligible_operators(order) :
                    get_eligible_operators(order)[k]
                        = [op |-> source_operators[i].operator_id,
                           weight |-> source_operators[i].weight]

\* an operator that was at capacity had a Contact closed, and a later request
\* was assigned to it: it holds as many Contacts as max_active_leads allows
\* plus the closed one
ClosingFreesCapacityWitness ==
    \E r \in Requests : \E i \in DOMAIN contacts :
        /\ pc[r] = "Done"
        /\ response[r].assigned = TRUE
        /\ i < response[r].contact_id
        /\ contacts[i].operator_id = response[r].operator_id
        /\ contacts[i].is_active = FALSE
        /\ contacts[response[r].contact_id].is_active = TRUE
        /\ Cardinality(ContactsOf(response[r].operator_id))
                > operators[response[r].operator_id].max_active_leads

\* C13: negative max_active_leads and negative weight are rejected before
\* they are stored: every operator has max_active_leads >= 0 and every edge
\* has weight >= 0.
AdminInputValidated ==
    /\ \A o \in DOMAIN operators : operators[o].max_active_leads >= 0
    /\ \A i \in DOMAIN source_operators : source_operators[i].weight >= 0

\* C14: the list returned by get_eligible_operators is sorted by operator id
\* ascending, for every store state and every order in which the store
\* returns the joined rows.
DeterministicCandidateOrder ==
    \A s \in SourceIds : \A order \in RowOrders(s) :
        \A j, k \in DOMAIN get_eligible_operators(order) :
            j < k => get_eligible_operators(order)[j].op
                        <= get_eligible_operators(order)[k].op

\* C15: an operator with several qualifying edges to a source is returned
\* once per edge, each candidate with its own edge weight, so the weight it
\* holds in the list, and the number of draws r in 1..totalWeight that
\* return it, is the sum of its edge weights.
DuplicateEdgesDoubleCount ==
    \A s \in SourceIds : \A order \in RowOrders(s) :
        LET c == get_eligible_operators(order)
            edges == EligibleEdges(s)
        IN \A o \in OperatorIds :
            LET share == SumSeq([i \in DOMAIN source_operators |->
                            IF i \in edges /\ source_operators[i].operator_id = o
                            THEN source_operators[i].weight ELSE 0])
            IN
            /\ Cardinality({k \in DOMAIN c : c[k].op = o})
                = Cardinality({i \in edges : source_operators[i].operator_id = o})
            /\ \A w \in Weights :
                  Cardinality({k \in DOMAIN c : c[k].op = o /\ c[k].weight = w})
                = Cardinality({i \in edges :
                                  /\ source_operators[i].operator_id = o
                                  /\ source_operators[i].weight = w})
            /\ WeightOf(c, o) = share
            /\ Cardinality({n \in 1..TotalWeight(c) :
                                weighted_random_choice(c, 2 * n) = o}) = share

\* the admin endpoint stored two edges of different weight for one (source,
\* operator) pair, and a request holds that operator as two candidates
DuplicateEdgesWitness ==
    \E r \in Requests :
        /\ pc[r] = "Select"
        /\ Len(candidates[r]) = 2
        /\ candidates[r][1].op = candidates[r][2].op
        /\ candidates[r][1].weight # candidates[r][2].weight
        /\ Len(source_operators) = 2
        /\ source_operators[1].source_id = source_operators[2].source_id
        /\ source_operators[1].operator_id = source_operators[2].operator_id

\* the steps of a request, in order; InsertLead is the insert half of
\* ResolveLead
StepRank(p) ==
    CASE p = "idle" -> 0
      [] p = "InsertLead" -> 1
      [] p = "ValidateSource" -> 2
      [] p = "ComputeEligibility" -> 3
      [] p = "Select" -> 4
      [] p = "Commit" -> 5
      [] p = "Done" -> 6
      [] p = "SourceNotFound" -> 6
      [] OTHER -> -1

\* C16 (its safety half): every step of a request moves it forward through
\* ResolveLead, ValidateSource, ComputeEligibility, Select, Commit, Done, and
\* a request leaves this sequence only from ValidateSource, to SourceNotFound.
StepOrder ==
    [][\A r \in Requests :
        pc'[r] # pc[r] =>
            /\ StepRank(pc'[r]) > StepRank(pc[r])
            /\ pc'[r] = "SourceNotFound" => pc[r] = "ValidateSource"
            /\ pc'[r] = "Done" => pc[r] = "Commit"
      ]_vars

\* C17: a step that does not complete a request's Commit leaves the Contacts,
\* every operator's load, the Operators, the Sources and the edges as they
\* were, and adds at most the Lead of the request's external id; so the
\* Contacts are those of the completed requests, and a request that stops
\* before its Commit has none.
AbortBeforeCommit ==
    [][\A r \in Requests :
        (pc'[r] # pc[r] /\ pc'[r] # "Done") =>
            /\ contacts' = contacts
            /\ \A o \in OperatorIds :
                    Cardinality(ActiveContactsOf(o)') = Cardinality(ActiveContactsOf(o))
            /\ config' = config
            /\ \/ leads' = leads
               \/ /\ leads' = Append(leads, contact_data[r].lead_external_id)
                  /\ \A i \in DOMAIN leads : leads[i] # contact_data[r].lead_external_id
            /\ Len(contacts') = Cardinality({q \in Requests : pc'[q] = "Done"})
      ]_vars

\* a request stopped before Commit after creating its Lead and selecting an
\* operator: the Lead is stored, no Contact is, the operator's load is 0
AbortBeforeCommitWitness ==
    \E r \in Requests :
        /\ pc[r] = "Commit"
        /\ selected_operator[r] # None
        /\ leads = <<contact_data[r].lead_external_id>>
        /\ contacts = <<>>
        /\ Cardinality(ActiveContactsOf(selected_operator[r])) = 0
        /\ \A q \in Requests : q # r => pc[q] = "idle"

\* ---- requests served one at a time -------------------------------------------
\* a request that has started and not yet returned
InFlight(q) == pc[q] \in {"InsertLead", "ValidateSource", "ComputeEligibility",
                          "Select", "Commit"}

\* the endpoints of main.py with a create_contact request starting only when
\* no other is in flight
SequentialNext ==
    \/ \E a \in BOOLEAN, m \in Capacities : create_operator(a, m)
    \/ create_source
    \/ \E s \in SourceIds, o \in OperatorIds, w \in Weights :
            assign_operator_to_source(s, o, w)
    \/ \E r \in Requests, x \in ExternalIds, s \in SourceIds :
            (\A q \in Requests : ~InFlight(q)) /\ ResolveLead(r, x, s)
    \/ \E r \in Requests : InsertLead(r)
    \/ \E r \in Requests : ValidateSource(r)
    \/ \E r \in Requests : ComputeEligibility(r)
    \/ \E r \in Requests : Select(r)
    \/ \E r \in Requests : Commit(r)

SequentialSpec == Init /\ [][SequentialNext]_vars

\* C18: when requests run one at a time, at most one request is in flight
\* and every operator has at most max_active_leads active Contacts.
SequentialCapacityInvariant ==
    /\ Cardinality({q \in Requests : InFlight(q)}) <= 1
    /\ \A o \in DOMAIN operators :
            Cardinality(ActiveContactsOf(o)) <= operators[o].max_active_leads

\* a first request filled an operator to its capacity and the next request
\* for the same source completed unassigned
SequentialCapacityWitness ==
    \E r1, r2 \in Requests :
        /\ pc[r1] = "Done" /\ response[r1].assigned = TRUE
        /\ pc[r2] = "Done" /\ response[r2].assigned = FALSE
        /\ response[r1].contact_id < response[r2].contact_id
        /\ contact_data[r1].source_id = contact_data[r2].source_id
        /\ Cardinality(ActiveContactsOf(response[r1].operator_id))
                = operators[response[r1].operator_id].max_active_leads
        /\ EdgesAtCapacity(contact_data[r2].source_id) # {}

\* ---- requests over a store with several sources ------------------------------
CrossSourceIds == 1..(MaxSources + 1)

\* a store the administrative endpoints can have built: MaxOperators
\* operators, the sources of CrossSourceIds, MaxEdges edges between them
CrossSourceInit ==
    /\ operators \in [1..MaxOperators ->
            [is_active : BOOLEAN, max_active_leads : {m \in Capacities : m >= 0}]]
    /\ sources = CrossSourceIds
    /\ source_operators \in [1..MaxEdges ->
            [source_id : CrossSourceIds, operator_id : OperatorIds, weight : Weights]]
    /\ leads = <<>>
    /\ contacts = <<>>
    /\ pc = [r \in Requests |-> "idle"]
    /\ contact_data = [r \in Requests |-> [lead_external_id |-> "", source_id |-> None]]
    /\ lead = [r \in Requests |-> None]
    /\ candidates = [r \in Requests |-> <<>>]
    /\ selected_operator = [r \in Requests |-> None]
    /\ response = [r \in Requests |-> [status |-> 0]]

\* create_contact requests for any of the sources
CrossSourceNext ==
    \/ \E r \in Requests, x \in ExternalIds, s \in CrossSourceIds : ResolveLead(r, x, s)
    \/ \E r \in Requests : InsertLead(r)
    \/ \E r \in Requests : ValidateSource(r)
    \/ \E r \in Requests : ComputeEligibility(r)
    \/ \E r \in Requests : Select(r)
    \/ \E r \in Requests : Commit(r)

CrossSourceSpec == CrossSourceInit /\ [][CrossSourceNext]_vars

\* C19: every Contact with a non-null operator_id references an operator
\* that exists, is active, and has an edge of weight > 0 to the Contact's
\* source.
AssignedOperatorEligible ==
    \A i \in DOMAIN contacts :
        contacts[i].operator_id # None =>
            /\ contacts[i].operator_id \in DOMAIN operators
            /\ operators[contacts[i].operator_id].is_active = TRUE
            /\ \E e \in DOMAIN source_operators :
                /\ source_operators[e].source_id = contacts[i].source_id
                /\ source_operators[e].operator_id = contacts[i].operator_id
                /\ source_operators[e].weight > 0

\* a Contact was assigned for one source while another active operator with
\* spare capacity had a positive-weight edge to a different source only
AssignedOperatorEligibleWitness ==
    \E i \in DOMAIN contacts : \E e \in DOMAIN source_operators :
        /\ contacts[i].operator_id # None
        /\ source_operators[e].source_id # contacts[i].source_id
        /\ source_operators[e].operator_id # contacts[i].operator_id
        /\ source_operators[e].weight > 0
        /\ operators[source_operators[e].operator_id].is_active = TRUE
        /\ operators[source_operators[e].operator_id].max_active_leads > 0
        /\ \A j \in DOMAIN contacts :
                contacts[j].operator_id # source_operators[e].operator_id

\* C20: a step of a create_contact request, on any path, leaves the
\* Operators, Sources and edges unchanged and every existing Contact and
\* Lead as it was; only the insert of get_or_create_lead adds a Lead and only
\* Commit adds a Contact, one row each, and a request never returns to a step
\* it has left, so it adds at most one Lead and at most one Contact.
CreateContactFrame ==
    [][\A r \in Requests :
        pc'[r] # pc[r] =>
            /\ config' = config
            /\ Len(leads') >= Len(leads)
            /\ Len(contacts') >= Len(contacts)
            /\ SubSeq(leads', 1, Len(leads)) = leads
            /\ SubSeq(contacts', 1, Len(contacts)) = contacts
            /\ Len(leads') - Len(leads) = IF pc[r] = "InsertLead" /\ pc'[r] = "ValidateSource"
                                          THEN 1 ELSE 0
            /\ Len(contacts') - Len(contacts) = IF pc[r] = "Commit" THEN 1 ELSE 0
            /\ pc'[r] = "IntegrityError" \/ StepRank(pc'[r]) > StepRank(pc[r])
            /\ pc[r] \notin {"Done", "SourceNotFound", "IntegrityError"}
      ]_vars

\* a second request for the same external id completed: the store holds the
\* first request's Lead and Contact unchanged and one more Contact
CreateContactFrameWitness ==
    \E r1, r2 \in Requests :
        /\ r1 # r2
        /\ pc[r1] = "Done" /\ pc[r2] = "Done"
        /\ contact_data[r1].lead_external_id = contact_data[r2].lead_external_id
        /\ Len(leads) = 1
        /\ Len(contacts) = 2
        /\ contacts[1].is_active = TRUE
        /\ contacts[1].lead_id = contacts[2].lead_id

====
